---- MODULE Spec2Model ----
(***************************************************************************)
(* The lexer of xic (src/compiler/parser.rs, src/syntax/token.rs) as a     *)
(* state machine.  A character is a one-character string; the one          *)
(* non-ASCII character of the model, SUPERSCRIPT TWO (U+00B2), is written  *)
(* "SUP2".  A text is a sequence of characters.  The state is one Lexer    *)
(* (its character iterator and its position) together with the text it was *)
(* built from and what the last call of Lexer::next returned.              *)
(***************************************************************************)
EXTENDS Integers, Sequences, FiniteSets, TLC

VARIABLES input, iterator, position, result, pulls

vars == <<input, iterator, position, result, pulls>>

\* Longest text, in characters, of the exhaustively enumerated inputs.
MaxLen == 3

\* Number of calls of Lexer::next made on one lexer.
MaxPulls == 5

----------------------------------------------------------------------------
\* Character classes (char::is_whitespace, char::is_numeric,
\* char::is_alphabetic) over the characters of the model.

Whitespace == {" ", "\n", "\t", "\r"}

DecimalDigit == {"0", "1", "2", "3", "4", "5", "6", "7", "8", "9"}

\* is_numeric is true of the Unicode categories Nd, Nl and No: of the decimal
\* digits and also of characters such as SUPERSCRIPT TWO, which no integer or
\* float parser accepts.
Numeric == DecimalDigit \cup {"SUP2"}

Alphabetic ==
    {"a", "b", "c", "d", "e", "f", "g", "h", "i", "j", "k", "l", "m",
     "n", "o", "p", "q", "r", "s", "t", "u", "v", "w", "x", "y", "z",
     "A", "B", "C", "D", "E", "F", "G", "H", "I", "J", "K", "L", "M",
     "N", "O", "P", "Q", "R", "S", "T", "U", "V", "W", "X", "Y", "Z"}

is_whitespace(c) == c \in Whitespace

is_numeric(c) == c \in Numeric

is_alphabetic(c) == c \in Alphabetic

\* The value of Option<char>::None.
NoChar == "None"

----------------------------------------------------------------------------
\* The keyword table: spelling -> TokenType marker.

\* A variant of the table without its last entry, `char32`.
KeywordsWithoutChar32 ==
       (<<"m", "o", "d", "u", "l", "e">> :> "Module")
    @@ (<<"t", "r", "a", "i", "t">> :> "Trait")
    @@ (<<"t", "y", "p", "e">> :> "Type")
    @@ (<<"e", "x", "t", "e", "n", "d">> :> "Extend")
    @@ (<<"f", "u", "n", "c", "t", "i", "o", "n">> :> "Function")
    @@ (<<"v", "a", "l", "u", "e">> :> "Value")
    @@ (<<"u", "s", "e">> :> "Use")
    @@ (<<"r", "e", "t", "u", "r", "n">> :> "Return")
    @@ (<<"t", "r", "u", "e">> :> "True")
    @@ (<<"f", "a", "l", "s", "e">> :> "False")
    @@ (<<"b", "i", "t">> :> "Bit")
    @@ (<<"b", "i", "t", "8">> :> "Bit8")
    @@ (<<"b", "i", "t", "1", "6">> :> "Bit16")
    @@ (<<"b", "i", "t", "3", "2">> :> "Bit32")
    @@ (<<"b", "i", "t", "6", "4">> :> "Bit64")
    @@ (<<"i", "n", "t">> :> "Int")
    @@ (<<"i", "n", "t", "8">> :> "Int8")
    @@ (<<"i", "n", "t", "1", "6">> :> "Int16")
    @@ (<<"i", "n", "t", "3", "2">> :> "Int32")
    @@ (<<"i", "n", "t", "6", "4">> :> "Int64")
    @@ (<<"f", "l", "o", "a", "t">> :> "Float")
    @@ (<<"f", "l", "o", "a", "t", "8">> :> "Float8")
    @@ (<<"f", "l", "o", "a", "t", "1", "6">> :> "Float16")
    @@ (<<"f", "l", "o", "a", "t", "3", "2">> :> "Float32")
    @@ (<<"f", "l", "o", "a", "t", "6", "4">> :> "Float64")
    @@ (<<"b", "o", "o", "l">> :> "Bool")
    @@ (<<"c", "h", "a", "r">> :> "Char")
    @@ (<<"c", "h", "a", "r", "8">> :> "Char8")
    @@ (<<"c", "h", "a", "r", "1", "6">> :> "Char16")

KEYWORDS ==
       (<<"m", "o", "d", "u", "l", "e">> :> "Module")
    @@ (<<"t", "r", "a", "i", "t">> :> "Trait")
    @@ (<<"t", "y", "p", "e">> :> "Type")
    @@ (<<"e", "x", "t", "e", "n", "d">> :> "Extend")
    @@ (<<"f", "u", "n", "c", "t", "i", "o", "n">> :> "Function")
    @@ (<<"v", "a", "l", "u", "e">> :> "Value")
    @@ (<<"u", "s", "e">> :> "Use")
    @@ (<<"r", "e", "t", "u", "r", "n">> :> "Return")
    @@ (<<"t", "r", "u", "e">> :> "True")
    @@ (<<"f", "a", "l", "s", "e">> :> "False")
    @@ (<<"b", "i", "t">> :> "Bit")
    @@ (<<"b", "i", "t", "8">> :> "Bit8")
    @@ (<<"b", "i", "t", "1", "6">> :> "Bit16")
    @@ (<<"b", "i", "t", "3", "2">> :> "Bit32")
    @@ (<<"b", "i", "t", "6", "4">> :> "Bit64")
    @@ (<<"i", "n", "t">> :> "Int")
    @@ (<<"i", "n", "t", "8">> :> "Int8")
    @@ (<<"i", "n", "t", "1", "6">> :> "Int16")
    @@ (<<"i", "n", "t", "3", "2">> :> "Int32")
    @@ (<<"i", "n", "t", "6", "4">> :> "Int64")
    @@ (<<"f", "l", "o", "a", "t">> :> "Float")
    @@ (<<"f", "l", "o", "a", "t", "8">> :> "Float8")
    @@ (<<"f", "l", "o", "a", "t", "1", "6">> :> "Float16")
    @@ (<<"f", "l", "o", "a", "t", "3", "2">> :> "Float32")
    @@ (<<"f", "l", "o", "a", "t", "6", "4">> :> "Float64")
    @@ (<<"b", "o", "o", "l">> :> "Bool")
    @@ (<<"c", "h", "a", "r">> :> "Char")
    @@ (<<"c", "h", "a", "r", "8">> :> "Char8")
    @@ (<<"c", "h", "a", "r", "1", "6">> :> "Char16")
    @@ (<<"c", "h", "a", "r", "3", "2">> :> "Char32")

\* The single-character punctuators of Lexer::next, '+' and '-' excepted.
PUNCTUATORS ==
       ("." :> "FullStop") @@ ("," :> "Comma") @@ (":" :> "Colon")
    @@ (";" :> "Semicolon") @@ ("=" :> "EqualsSign") @@ ("*" :> "Asterisk")
    @@ ("/" :> "Solidus") @@ ("\\" :> "ReverseSolidus")
    @@ ("|" :> "VerticalLine") @@ ("!" :> "ExclamationMark")
    @@ ("?" :> "QuestionMark") @@ ("@" :> "ComercialAt")
    @@ ("#" :> "NumberSign") @@ ("{" :> "LeftCurlyBracket")
    @@ ("}" :> "RightCurlyBracket") @@ ("(" :> "LeftParenthesis")
    @@ (")" :> "RightParenthesis") @@ ("<" :> "LeftAngleBracket")
    @@ (">" :> "RightAngleBracket") @@ ("[" :> "LeftSquareBracket")
    @@ ("]" :> "RightSquareBracket")

\* A TokenType: the variant's name and its payload (<<>> when it has none).
TokenType(name, value) == [name |-> name, value |-> value]

Marker(name) == TokenType(name, <<>>)

----------------------------------------------------------------------------
\* The inputs.

Alphabet ==
    {" ", "\n", "2", ".", "+", "-", ">", ";", "a", "_", "'", "\"", "\\",
     "$", "SUP2"}

RECURSIVE Texts(_)
Texts(n) ==
    IF n = 0 THEN {<<>>}
    ELSE LET shorter == Texts(n - 1)
         IN  shorter \cup {Append(t, c) : t \in shorter, c \in Alphabet}

\* Lexemes of the test file and of the language's examples, and the numbers
\* around the limits of u64 and i64.
Samples ==
    { <<"2", "1", ";">>,
      <<"2", "1", ".", "2", ".", "1">>,
      <<"2", "1", ".", "2", "1">>,
      <<"+", "2", "1">>,
      <<"-", "2", "1">>,
      <<"0", "2", "1">>,
      <<"C", "_", "o", "o", "l", "I", "d", "e", "n", "t", "i", "f", "i", "e", "r", "3", "2", "_">>,
      <<"f", "o", "o", ";">>,
      <<"_", "f", "o", "o">>,
      <<"a", "-", ">", "b">>,
      <<"t", "r", "u", "e">>,
      <<"f", "a", "l", "s", "e">>,
      <<"T", "r", "u", "e">>,
      <<"u", "s", "e">>,
      <<"u", "s", "e", "r">>,
      <<"i", "n", "t", "8">>,
      <<"r", "e", "t", "u", "r", "n">>,
      <<"'", "\\", "'", "'">>,
      <<"\"", "a", "\\", "\"", "b", "\"">>,
      <<"\"", "a", "\\", "n", "\"">>,
      <<"\"", "H", "e", "l", "l", "o", ",", "\\", "'", "\\", "\"", " ", "W", "o", "r", "l", "d", "!", "\"">>,
      <<"9", "2", "2", "3", "3", "7", "2", "0", "3", "6", "8", "5", "4", "7", "7", "5", "8", "0", "7">>,
      <<"9", "2", "2", "3", "3", "7", "2", "0", "3", "6", "8", "5", "4", "7", "7", "5", "8", "0", "8">>,
      <<"1", "8", "4", "4", "6", "7", "4", "4", "0", "7", "3", "7", "0", "9", "5", "5", "1", "6", "1", "5">>,
      <<"1", "8", "4", "4", "6", "7", "4", "4", "0", "7", "3", "7", "0", "9", "5", "5", "1", "6", "1", "6">> }

Affix == {<<>>} \cup {<<c>> : c \in Alphabet}

\* Lexemes of every kind, as the test file has them, and the whitespace put
\* between two of them.
Words ==
    { <<"2", "1">>, <<"+", "2", "1">>, <<"-", "2", "1">>,
      <<"2", "1", ".", "2", "1">>, <<"t", "r", "u", "e">>,
      <<"f", "o", "o">>, <<"_", "f", "o", "o">>,
      <<"'", "a", "'">>, <<"'", "'">>, <<"'", "\\", "'", "'">>,
      <<"\"", "a", " ", "b", "\"">>, <<"\"", "\"">>,
      <<"u", "s", "e">>, <<"i", "n", "t", "8">>,
      <<";">>, <<"-", ">">>, <<"-">>, <<"+">>, <<">">> }

Separators == {<<" ">>, <<"\n">>, <<" ", "\n", " ", " ">>}

Inputs ==
    Texts(MaxLen)
        \cup {p \o w \o s : p \in Affix, w \in Samples, s \in Affix}
        \cup {a \o s \o b : a \in Words, s \in Separators, b \in Words}

----------------------------------------------------------------------------
\* Lexer::increment: one character off the iterator and the position moved
\* past it; at the end of the text, None and nothing changed.  A lexer L is
\* [iterator, position].

incrementKeepingColumn(L) ==
    IF L.iterator = <<>>
    THEN [lexer |-> L, current |-> NoChar]
    ELSE [lexer |-> [iterator |-> Tail(L.iterator),
                     position |->
                         [row |-> IF Head(L.iterator) = "\n"
                                  THEN L.position.row + 1
                                  ELSE L.position.row,
                          column |-> L.position.column + 1]],
          current |-> Head(L.iterator)]

increment(L) ==
    IF L.iterator = <<>>
    THEN [lexer |-> L, current |-> NoChar]
    ELSE LET current == Head(L.iterator)
             moved ==
                 IF current = "\n"
                 THEN [row |-> L.position.row + 1, column |-> 0]
                 ELSE L.position
         IN  [lexer |-> [iterator |-> Tail(L.iterator),
                         position |-> [row |-> moved.row,
                                       column |-> moved.column + 1]],
              current |-> current]

\* self.iterator.clone().peekable().peek(): the next character, not consumed.
peek(L) == IF L.iterator = <<>> THEN NoChar ELSE Head(L.iterator)

----------------------------------------------------------------------------
\* str::parse of the numeric buffer.  A parsed integer is kept as its decimal
\* digits without leading zeros, so the limits of u64 and i64 are compared
\* digit by digit.

DigitValue(c) ==
    CASE c = "0" -> 0 [] c = "1" -> 1 [] c = "2" -> 2 [] c = "3" -> 3
      [] c = "4" -> 4 [] c = "5" -> 5 [] c = "6" -> 6 [] c = "7" -> 7
      [] c = "8" -> 8 [] c = "9" -> 9

RECURSIVE StripZeros(_)
StripZeros(digits) ==
    IF Len(digits) > 1 /\ Head(digits) = "0"
    THEN StripZeros(Tail(digits))
    ELSE digits

RECURSIVE StripTrailingZeros(_)
StripTrailingZeros(digits) ==
    IF digits # <<>> /\ digits[Len(digits)] = "0"
    THEN StripTrailingZeros(SubSeq(digits, 1, Len(digits) - 1))
    ELSE digits

\* a <= b for two numbers given by their digits without leading zeros.
RECURSIVE DigitsLeq(_, _)
DigitsLeq(a, b) ==
    IF Len(a) # Len(b) THEN Len(a) < Len(b)
    ELSE IF a = <<>> THEN TRUE
    ELSE IF Head(a) # Head(b)
         THEN DigitValue(Head(a)) < DigitValue(Head(b))
         ELSE DigitsLeq(Tail(a), Tail(b))

AllDecimal(s) == \A i \in 1..Len(s) : s[i] \in DecimalDigit

HasSign(s) == s # <<>> /\ Head(s) \in {"+", "-"}

Unsigned(s) == IF HasSign(s) THEN Tail(s) ELSE s

U64_MAX == <<"1", "8", "4", "4", "6", "7", "4", "4", "0", "7", "3", "7", "0", "9", "5", "5", "1", "6", "1", "5">>
I64_MAX == <<"9", "2", "2", "3", "3", "7", "2", "0", "3", "6", "8", "5", "4", "7", "7", "5", "8", "0", "7">>
I64_MIN == <<"9", "2", "2", "3", "3", "7", "2", "0", "3", "6", "8", "5", "4", "7", "7", "5", "8", "0", "8">>
\* What str::parse returns: Ok(value) or Err.
ParseOk(value) == [ok |-> TRUE, value |-> value]

ParseErr == [ok |-> FALSE, value |-> <<>>]

\* buffer.parse::<u64>(): decimal digits after an optional '+', at most
\* u64::MAX.
ParseBits(digits) ==
    IF digits = <<>> \/ ~AllDecimal(digits)
       \/ ~DigitsLeq(StripZeros(digits), U64_MAX)
    THEN ParseErr
    ELSE ParseOk(StripZeros(digits))

parse_u64(buffer) ==
    ParseBits(IF buffer # <<>> /\ Head(buffer) = "+"
              THEN Tail(buffer) ELSE buffer)

\* buffer.parse::<i64>(): decimal digits after an optional sign, between
\* i64::MIN and i64::MAX.
ParseInteger(negative, digits) ==
    IF digits = <<>> \/ ~AllDecimal(digits)
       \/ ~DigitsLeq(StripZeros(digits),
                     IF negative THEN I64_MIN ELSE I64_MAX)
    THEN ParseErr
    ELSE ParseOk([negative |-> negative /\ StripZeros(digits) # <<"0">>,
                  digits |-> StripZeros(digits)])

parse_i64(buffer) ==
    ParseInteger(buffer # <<>> /\ Head(buffer) = "-", Unsigned(buffer))

\* buffer.parse::<f64>() of a buffer of numeric characters, one '.' at most
\* and an optional sign: decimal digits with at least one digit.  The value is
\* kept as written (sign, integer digits, fraction digits) without leading and
\* trailing zeros; rounding to the nearest f64 is not represented.
DotsOf(body) == {i \in 1..Len(body) : body[i] = "."}

FirstDot(body) ==
    IF DotsOf(body) = {} THEN Len(body) + 1
    ELSE CHOOSE i \in DotsOf(body) : \A j \in DotsOf(body) : i <= j

ParseDecimal(negative, whole, fraction) ==
    IF ~AllDecimal(whole) \/ ~AllDecimal(fraction)
       \/ (whole = <<>> /\ fraction = <<>>)
    THEN ParseErr
    ELSE ParseOk([negative |-> negative,
                  whole |-> IF whole = <<>> THEN <<"0">>
                            ELSE StripZeros(whole),
                  fraction |-> StripTrailingZeros(fraction)])

ParseBody(negative, body, dot) ==
    ParseDecimal(negative, SubSeq(body, 1, dot - 1),
                 SubSeq(body, dot + 1, Len(body)))

parse_f64(buffer) ==
    ParseBody(buffer # <<>> /\ Head(buffer) = "-", Unsigned(buffer),
              FirstDot(Unsigned(buffer)))

----------------------------------------------------------------------------
\* Lexer::next_numeric.  `current` is the character already consumed (a sign
\* or a digit), type the marker it starts with.  Returns the lexer, the
\* buffer scanned, and the TokenType or the LexingError ("" when Ok).

NumericOk(L, buffer, type) ==
    [lexer |-> L, buffer |-> buffer, error |-> "", type |-> type]

NumericErr(L, buffer, error) ==
    [lexer |-> L, buffer |-> buffer, error |-> error, type |-> Marker("None")]

\* One arm of the final match: Err(error) if the parse failed, else
\* Ok(name(value)).
Parsed(L, buffer, parsed, name, error) ==
    IF ~parsed.ok THEN NumericErr(L, buffer, error)
    ELSE NumericOk(L, buffer, TokenType(name, parsed.value))

\* The final match on the marker (lines 115-141).
NumericParse(L, buffer, type) ==
    CASE type = "DecimalLiteral" ->
           Parsed(L, buffer, parse_f64(buffer), "Decimal", "DecimalParsing")
      [] type = "BitsLiteral" ->
           Parsed(L, buffer, parse_u64(buffer), "Bits", "BitsParsing")
      [] type = "IntegerLiteral" ->
           Parsed(L, buffer, parse_i64(buffer), "Integer", "IntegerParsing")
      [] OTHER -> NumericErr(L, buffer, "unreachable")

\* One turn of the loop (lines 96-113): NumericLoop from its top, NumericStep
\* from the result i of self.increment().
RECURSIVE NumericLoop(_, _, _, _)
NumericStep(i, buffer, type) ==
    IF i.current = NoChar THEN NumericParse(i.lexer, buffer, type)
    ELSE IF i.current = "."
    THEN IF type = "DecimalLiteral"
         THEN NumericErr(i.lexer, buffer, "MultipleDecimalPoints")
         ELSE NumericLoop(i.lexer, buffer, i.current, "DecimalLiteral")
    ELSE IF ~is_numeric(i.current)
    THEN NumericParse(i.lexer, buffer, type)
    ELSE NumericLoop(i.lexer, buffer, i.current, type)

NumericLoop(L, buffer, current, type) ==
    NumericStep(increment(L), Append(buffer, current), type)

\* A variant of next_numeric that drops the marker it is called with.
next_numeric_unmarked(L, current, type) ==
    NumericLoop(L, <<>>, current, "None")

next_numeric(L, current, type) == NumericLoop(L, <<>>, current, type)

----------------------------------------------------------------------------
\* Lexer::next_character: one character, or the character a backslash
\* escapes.  error is "" when Ok.

CharacterOk(L, is_escaped, current) ==
    [lexer |-> L, error |-> "", is_escaped |-> is_escaped,
     current |-> current]

CharacterErr(L, error) ==
    [lexer |-> L, error |-> error, is_escaped |-> FALSE, current |-> NoChar]

\* After the backslash (lines 155-166): second is the result of the second
\* self.increment().
Escaped(second) ==
    IF second.current = NoChar THEN CharacterErr(second.lexer, "End")
    ELSE IF second.current \in {"\\", "'", "\""}
    THEN CharacterOk(second.lexer, TRUE, second.current)
    ELSE CharacterErr(second.lexer, "InvalidEscapeSequence")

\* Lines 145-153: first is the result of the first self.increment().
Unescaped(first) ==
    IF first.current = NoChar THEN CharacterErr(first.lexer, "End")
    ELSE IF first.current # "\\"
    THEN CharacterOk(first.lexer, FALSE, first.current)
    ELSE Escaped(increment(first.lexer))

next_character(L) == Unescaped(increment(L))

----------------------------------------------------------------------------
\* Lexer::next (Iterator::next).  What a pull returns: tag "None" (the end of
\* the sequence), "Ok" (a token: type and position) or "Err" (error).  With
\* it, for the properties: skipped, the number of whitespace characters
\* consumed before the dispatch; buffer, the text the numeric, identifier or
\* string scan accumulated; raw, the error next_character raised ("" if
\* none).

NoPosition == [row |-> 0, column |-> 0]

ReturnNone(L, skipped) ==
    [lexer |-> L, tag |-> "None", type |-> Marker("None"),
     position |-> NoPosition, error |-> "", skipped |-> skipped,
     buffer |-> <<>>, raw |-> ""]

\* A variant of ReturnErr that also ends the sequence: the rest of the text is
\* dropped.
ReturnErrAndStop(L, skipped, error, buffer, raw) ==
    [lexer |-> [iterator |-> <<>>, position |-> L.position], tag |-> "Err",
     type |-> Marker("None"), position |-> NoPosition, error |-> error,
     skipped |-> skipped, buffer |-> buffer, raw |-> raw]

ReturnErr(L, skipped, error, buffer, raw) ==
    [lexer |-> L, tag |-> "Err", type |-> Marker("None"),
     position |-> NoPosition, error |-> error, skipped |-> skipped,
     buffer |-> buffer, raw |-> raw]

ReturnOk(L, skipped, stamp, type, buffer) ==
    [lexer |-> L, tag |-> "Ok", type |-> type, position |-> stamp,
     error |-> "", skipped |-> skipped, buffer |-> buffer, raw |-> ""]

\* What the whitespace loop leaves: the lexer, the character in hand and the
\* number of whitespace characters consumed.
Skipped(L, current, skipped) ==
    [lexer |-> L, current |-> current, skipped |-> skipped]

\* A variant of SkipWhitespace that skips one whitespace character only.
SkipWhitespaceOnce(L, current, skipped) ==
    IF ~is_whitespace(current) THEN Skipped(L, current, skipped)
    ELSE Skipped(increment(L).lexer, increment(L).current, skipped + 1)

\* The whitespace loop (lines 182-193): current is the character in hand.
RECURSIVE SkipWhitespace(_, _, _)
SkipWhitespace(L, current, skipped) ==
    IF ~is_whitespace(current) THEN Skipped(L, current, skipped)
    ELSE IF increment(L).current = NoChar
    THEN Skipped(increment(L).lexer, NoChar, skipped + 1)
    ELSE SkipWhitespace(increment(L).lexer, increment(L).current,
                        skipped + 1)

\* A variant of Stamp that takes the position as it is after the character.
StampAfter(L) == L.position

\* Token::new(Position {row, column - 1}) (lines 195-198).
Stamp(L) == [row |-> L.position.row, column |-> L.position.column - 1]

\* A variant of TranslateEnd that returns the error as next_character raised
\* it.
TranslateEndNever(error, incomplete) == error

\* A variant of TranslateEnd that turns every error into the arm's own.
TranslateEndAlways(error, incomplete) == incomplete

\* What the literal arms do with an error of next_character (lines 221-226,
\* 232-237): End becomes the arm's own error, any other error is returned.
TranslateEnd(error, incomplete) ==
    IF error # "End" THEN error ELSE incomplete

\* The closing apostrophe (lines 207-217): close is the result of
\* self.increment(), ok the character read.
CharacterClose(close, skipped, stamp, ok) ==
    IF close.current # "'"
    THEN ReturnErr(close.lexer, skipped, "IncompleteCharacter", <<>>, "")
    ELSE ReturnOk(close.lexer, skipped, stamp, TokenType("Character", ok),
                  <<>>)

\* A variant of CharacterRead that takes an escaped apostrophe for the empty
\* literal too.
CharacterReadAnyApostrophe(read, skipped, stamp) ==
    IF read.error # ""
    THEN ReturnErr(read.lexer, skipped,
                   TranslateEnd(read.error, "IncompleteCharacter"),
                   <<>>, read.error)
    ELSE IF read.current = "'"
    THEN ReturnOk(read.lexer, skipped, stamp, TokenType("Character", "NUL"),
                  <<>>)
    ELSE CharacterClose(increment(read.lexer), skipped, stamp, read.current)

\* The match on the result of next_character (lines 202-227).
CharacterRead(read, skipped, stamp) ==
    IF read.error # ""
    THEN ReturnErr(read.lexer, skipped,
                   TranslateEnd(read.error, "IncompleteCharacter"),
                   <<>>, read.error)
    ELSE IF read.current = "'" /\ ~read.is_escaped
    THEN ReturnOk(read.lexer, skipped, stamp, TokenType("Character", "NUL"),
                  <<>>)
    ELSE CharacterClose(increment(read.lexer), skipped, stamp, read.current)

\* The '\'' arm (lines 202-227).
CharacterLiteral(L, skipped, stamp) ==
    CharacterRead(next_character(L), skipped, stamp)

\* A variant of StringRead that ends the literal at an escaped '"' too.
RECURSIVE StringLiteral(_, _, _, _)
StringReadAnyQuote(read, skipped, stamp, buffer) ==
    IF read.error # ""
    THEN ReturnErr(read.lexer, skipped,
                   TranslateEnd(read.error, "IncompleteString"),
                   buffer, read.error)
    ELSE IF read.current = "\""
    THEN ReturnOk(read.lexer, skipped, stamp,
                  TokenType("String",
                            IF buffer = <<>> THEN <<"NUL">> ELSE buffer),
                  buffer)
    ELSE StringLiteral(read.lexer, skipped, stamp,
                       Append(buffer, read.current))

\* The '"' arm (lines 228-250): StringLiteral from the top of the loop,
\* StringRead from the result of next_character.
StringRead(read, skipped, stamp, buffer) ==
    IF read.error # ""
    THEN ReturnErr(read.lexer, skipped,
                   TranslateEnd(read.error, "IncompleteString"),
                   buffer, read.error)
    ELSE IF read.current = "\"" /\ ~read.is_escaped
    THEN ReturnOk(read.lexer, skipped, stamp,
                  TokenType("String",
                            IF buffer = <<>> THEN <<"NUL">> ELSE buffer),
                  buffer)
    ELSE StringLiteral(read.lexer, skipped, stamp,
                       Append(buffer, read.current))

StringLiteral(L, skipped, stamp, buffer) ==
    StringRead(next_character(L), skipped, stamp, buffer)

\* The return of next_numeric's error or of the token with its type.
NumericResult(scanned, skipped, stamp) ==
    IF scanned.error # ""
    THEN ReturnErr(scanned.lexer, skipped, scanned.error, scanned.buffer, "")
    ELSE ReturnOk(scanned.lexer, skipped, stamp, scanned.type,
                  scanned.buffer)

\* The call of next_numeric (lines 259-263, 277-281, 307-311).
ScanNumeric(L, skipped, stamp, current, type) ==
    NumericResult(next_numeric(L, current, type), skipped, stamp)

\* A variant of PlusSign that scans a signed literal as an unsigned one.
PlusSignAsBits(L, skipped, stamp, current) ==
    IF peek(L) # NoChar /\ is_numeric(peek(L))
    THEN ScanNumeric(L, skipped, stamp, current, "BitsLiteral")
    ELSE ReturnOk(L, skipped, stamp, Marker("PlusSign"), <<>>)

\* A variant of PlusSign whose peek consumes the character it looks at.
PlusSignTakingPeeked(L, skipped, stamp, current) ==
    IF peek(L) # NoChar /\ is_numeric(peek(L))
    THEN ScanNumeric(L, skipped, stamp, current, "IntegerLiteral")
    ELSE ReturnOk(increment(L).lexer, skipped, stamp, Marker("PlusSign"),
                  <<>>)

\* The '+' arm (lines 256-270).
PlusSign(L, skipped, stamp, current) ==
    IF peek(L) # NoChar /\ is_numeric(peek(L))
    THEN ScanNumeric(L, skipped, stamp, current, "IntegerLiteral")
    ELSE ReturnOk(L, skipped, stamp, Marker("PlusSign"), <<>>)

\* A variant of MinusSign that does not look for '>'.
MinusSignNoArrow(L, skipped, stamp, current) ==
    IF peek(L) # NoChar /\ is_numeric(peek(L))
    THEN ScanNumeric(L, skipped, stamp, current, "IntegerLiteral")
    ELSE ReturnOk(L, skipped, stamp, Marker("MinuxSign"), <<>>)

\* The '-' arm (lines 271-288).
MinusSign(L, skipped, stamp, current) ==
    IF peek(L) = NoChar
    THEN ReturnOk(L, skipped, stamp, Marker("MinuxSign"), <<>>)
    ELSE IF peek(L) = ">"
    THEN ReturnOk(increment(L).lexer, skipped, stamp,
                  Marker("RightwardsArrow"), <<>>)
    ELSE IF is_numeric(peek(L))
    THEN ScanNumeric(L, skipped, stamp, current, "IntegerLiteral")
    ELSE ReturnOk(L, skipped, stamp, Marker("MinuxSign"), <<>>)

\* A variant of IsIdentifierPart that leaves the digits out.
IsIdentifierPartNoDigit(c) == is_alphabetic(c) \/ c = "_"

\* The test that keeps the identifier loop going (line 324).
IsIdentifierPart(c) == is_alphabetic(c) \/ c = "_" \/ is_numeric(c)

\* The identifier loop (lines 315-327): IdentifierLoop from its top,
\* IdentifierStep from the result i of self.increment().
RECURSIVE IdentifierLoop(_, _, _)
IdentifierStep(i, buffer) ==
    IF i.current = NoChar \/ ~IsIdentifierPart(i.current)
    THEN [lexer |-> i.lexer, buffer |-> buffer]
    ELSE IdentifierLoop(i.lexer, buffer, i.current)

IdentifierLoop(L, buffer, current) ==
    IdentifierStep(increment(L), Append(buffer, current))

\* A variant of Keyword that returns every marker of the table as it is.
KeywordAsIs(buffer) ==
    IF buffer \in DOMAIN KEYWORDS
    THEN Marker(KEYWORDS[buffer])
    ELSE TokenType("Identifier", buffer)

\* The keyword lookup (lines 329-337).
Keyword(buffer) ==
    IF buffer \in DOMAIN KEYWORDS
    THEN CASE KEYWORDS[buffer] = "True" -> TokenType("Boolean", TRUE)
           [] KEYWORDS[buffer] = "False" -> TokenType("Boolean", FALSE)
           [] OTHER -> Marker(KEYWORDS[buffer])
    ELSE TokenType("Identifier", buffer)

\* The token of the run the identifier loop scanned.
Word(run, skipped, stamp) ==
    ReturnOk(run.lexer, skipped, stamp, Keyword(run.buffer), run.buffer)

\* A variant of Other in which '_' starts a word as a letter does.
OtherUnderscoreStartsWord(L, skipped, stamp, current) ==
    IF is_numeric(current)
    THEN ScanNumeric(L, skipped, stamp, current, "BitsLiteral")
    ELSE IF is_alphabetic(current) \/ current = "_"
    THEN Word(IdentifierLoop(L, <<>>, current), skipped, stamp)
    ELSE ReturnErr(L, skipped, "UnknownToken", <<>>, "")

\* The `_` arm (lines 305-341).
Other(L, skipped, stamp, current) ==
    IF is_numeric(current)
    THEN ScanNumeric(L, skipped, stamp, current, "BitsLiteral")
    ELSE IF is_alphabetic(current)
    THEN Word(IdentifierLoop(L, <<>>, current), skipped, stamp)
    ELSE ReturnErr(L, skipped, "UnknownToken", <<>>, "")

\* The match on the start symbol (lines 201-342).
Dispatch(L, skipped, stamp, current) ==
    CASE current = "'" -> CharacterLiteral(L, skipped, stamp)
      [] current = "\"" -> StringLiteral(L, skipped, stamp, <<>>)
      [] current = "+" -> PlusSign(L, skipped, stamp, current)
      [] current = "-" -> MinusSign(L, skipped, stamp, current)
      [] current \in DOMAIN PUNCTUATORS ->
           ReturnOk(L, skipped, stamp, Marker(PUNCTUATORS[current]), <<>>)
      [] OTHER -> Other(L, skipped, stamp, current)

\* Lines 195-344: skip is what the whitespace loop left.
AfterWhitespace(skip) ==
    IF skip.current = NoChar THEN ReturnNone(skip.lexer, skip.skipped)
    ELSE Dispatch(skip.lexer, skip.skipped, Stamp(skip.lexer), skip.current)

\* Lines 174-193: first is the result of the first self.increment().
AfterFirst(first) ==
    IF first.current = NoChar THEN ReturnNone(first.lexer, 0)
    ELSE AfterWhitespace(SkipWhitespace(first.lexer, first.current, 0))

LexerNext(L) == AfterFirst(increment(L))

----------------------------------------------------------------------------
\* The state machine: a lexer built on one of the inputs and pulled.

\* Number of characters the lexer has consumed.
Consumed == Len(input) - Len(iterator)

\* What the last pull returned; tag "Unpulled" before the first pull.  first
\* is the index in input of the character the pull dispatched on (0 when it
\* returned None).
Unpulled ==
    [tag |-> "Unpulled", type |-> Marker("None"), position |-> NoPosition,
     error |-> "", first |-> 0, buffer |-> <<>>, raw |-> ""]

\* Lexer::new (lines 63-68).
Init ==
    /\ input \in Inputs
    /\ iterator = input
    /\ position = [row |-> 1, column |-> 1]
    /\ result = Unpulled
    /\ pulls = 0

\* The lexer after a call of Lexer::next that returned r, and r as the
\* driver sees it.
Returned(r) ==
    /\ iterator' = r.lexer.iterator
    /\ position' = r.lexer.position
    /\ result' = [tag |-> r.tag, type |-> r.type, position |-> r.position,
                  error |-> r.error,
                  first |-> IF r.tag = "None" THEN 0
                            ELSE Consumed + r.skipped + 1,
                  buffer |-> r.buffer, raw |-> r.raw]

\* One call of Lexer::next by the driver.
Pull ==
    /\ pulls < MaxPulls
    /\ Returned(LexerNext([iterator |-> iterator, position |-> position]))
    /\ pulls' = pulls + 1
    /\ UNCHANGED input

Next == Pull

Spec == Init /\ [][Next]_vars

----------------------------------------------------------------------------
\* Notions the properties are stated in, read off the input text.

IsToken == result.tag = "Ok"

IsError == result.tag = "Err"

IsEnd == result.tag = "None"

NumericNames == {"Bits", "Integer", "Decimal"}

\* The character the last pull dispatched on.
FirstChar == input[result.first]

\* The index just after the text the last scan accumulated: the character
\* that ended a numeric or identifier scan, if there is one.
AfterLexeme == result.first + Len(result.buffer)

\* The 1-based row and column of the i-th character of the input.
LineBreaksBefore(i) == {j \in 1..(i - 1) : input[j] = "\n"}

PositionOf(i) ==
    [row |-> 1 + Cardinality(LineBreaksBefore(i)),
     column |-> i - (IF LineBreaksBefore(i) = {} THEN 0
                     ELSE CHOOSE j \in LineBreaksBefore(i) :
                              \A k \in LineBreaksBefore(i) : k <= j)]

\* Only whitespace, or nothing, is left to read.
RestIsWhitespace == \A i \in 1..Len(iterator) : is_whitespace(iterator[i])

----------------------------------------------------------------------------
\* C1: when a pull has returned a numeric token and the character right after
\* the literal is not whitespace, the next pull dispatches on that character.
NumericTerminatorIsNextStart ==
    [][(/\ IsToken
        /\ result.type.name \in NumericNames
        /\ AfterLexeme <= Len(input)
        /\ ~is_whitespace(input[AfterLexeme]))
       => result'.first = AfterLexeme]_vars

\* C2: when a pull has returned an identifier or a keyword and the character
\* right after the run is not whitespace, the next pull dispatches on that
\* character.
IdentifierTerminatorIsNextStart ==
    [][(/\ IsToken
        /\ is_alphabetic(FirstChar)
        /\ AfterLexeme <= Len(input)
        /\ ~is_whitespace(input[AfterLexeme]))
       => result'.first = AfterLexeme]_vars

\* C3: the position of a returned token is the 1-based row and column of its
\* first character in the input, and its column is at least 1.
TokenPositionIsFirstCharacter ==
    IsToken => /\ result.position = PositionOf(result.first)
               /\ result.position.column >= 1

\* C3 witness: a token that starts at the second column of the second line.
TokenOnSecondLine ==
    /\ IsToken
    /\ result.first > 1
    /\ input[result.first - 1] # "\n"
    /\ result.position = [row |-> 2, column |-> 2]

\* C4: a returned token never has the kind None, a numeric marker, or the
\* True/False marker.
TokenKindIsConcrete ==
    IsToken => result.type.name \notin
                   {"None", "BitsLiteral", "IntegerLiteral", "DecimalLiteral",
                    "True", "False"}

\* C4 witness: the word `true` returned as Boolean(true).
TrueReturnedAsBoolean ==
    /\ IsToken
    /\ result.buffer = <<"t", "r", "u", "e">>
    /\ result.type.name = "Boolean"
    /\ result.type.value = TRUE

\* C5: a pull that returns a token or an error consumes at least one
\* character; a pull returns the end of the sequence exactly when nothing or
\* only whitespace is left; after the end every pull returns the end; and
\* after more pulls than the input has characters the end has been returned.
PullsAreFinite ==
    /\ [][/\ result'.tag \in {"Ok", "Err"} => Len(iterator') < Len(iterator)
          /\ result'.tag = "None" <=> RestIsWhitespace
          /\ IsEnd => result'.tag = "None"]_vars
    /\ [](pulls > Len(input) => IsEnd)

\* C5 witness: the end returned again, after a token and then the end over
\* trailing whitespace.
EndReturnedTwice ==
    /\ IsEnd
    /\ pulls = 3
    /\ Len(input) = 3
    /\ is_alphabetic(input[1])
    /\ is_whitespace(input[3])

\* The index of the first character at or after i that is not whitespace
\* (Len(input) + 1 when there is none).
RECURSIVE FirstNonWhitespaceFrom(_)
FirstNonWhitespaceFrom(i) ==
    IF i > Len(input) \/ ~is_whitespace(input[i]) THEN i
    ELSE FirstNonWhitespaceFrom(i + 1)

\* C6, as stated: after a pull has returned an error, the next pull returns
\* neither a token nor an error (and so, the end being final, no later pull
\* does).
ErrorIsTerminal ==
    [][IsError => result'.tag \notin {"Ok", "Err"}]_vars

\* C6, amended: an error ends only the pull that returned it, and the lexer
\* keeps no error state.  The next pull goes on from the character after the
\* last one the failed pull consumed (after UnknownToken, the character
\* after the unknown one): it returns the end when only whitespace is left,
\* and otherwise a token or an error for the first character left that is
\* not whitespace.
ErrorEndsOnlyItsPull ==
    [][IsError =>
         /\ result.error = "UnknownToken" => Consumed = result.first
         /\ IF RestIsWhitespace THEN result'.tag = "None"
            ELSE /\ result'.tag \in {"Ok", "Err"}
                 /\ result'.first = FirstNonWhitespaceFrom(Consumed + 1)]_vars

\* C6 witness: a token returned by the pull after the one that failed with
\* UnknownToken on `$`.
TokenAfterError ==
    /\ pulls = 2
    /\ Len(input) >= 2
    /\ input[1] = "$"
    /\ IsToken

\* The errors Lexer::next may return: all of LexingError but End.
PublicErrors ==
    {"MultipleDecimalPoints", "DecimalParsing", "BitsParsing",
     "IntegerParsing", "UnknownToken", "InvalidEscapeSequence",
     "IncompleteCharacter", "IncompleteString"}

\* C7: an error returned by a pull is never End; when next_character raised
\* End, the pull returns IncompleteCharacter in a character literal and
\* IncompleteString in a string literal.
EndIsNeverReturned ==
    IsError =>
        /\ result.error \in PublicErrors
        /\ result.raw = "End" =>
               /\ FirstChar \in {"'", "\""}
               /\ FirstChar = "'" => result.error = "IncompleteCharacter"
               /\ FirstChar = "\"" => result.error = "IncompleteString"

\* C7 witness: a string literal cut short by the end of the input, after a
\* backslash.
EndInsideString ==
    /\ IsError
    /\ result.raw = "End"
    /\ FirstChar = "\""
    /\ input[Len(input)] = "\\"
    /\ result.error = "IncompleteString"

\* The numeric run that starts at index i of the input: the sign or digit at
\* i and the numeric characters and dots that follow it.
RECURSIVE NumericRunEnd(_)
NumericRunEnd(i) ==
    IF i < Len(input) /\ (is_numeric(input[i + 1]) \/ input[i + 1] = ".")
    THEN NumericRunEnd(i + 1)
    ELSE i

NumericRun(i) == SubSeq(input, i, NumericRunEnd(i))

Dots(run) == Cardinality({i \in 1..Len(run) : run[i] = "."})

\* The last pull scanned a numeric literal: it dispatched on a numeric
\* character, or on a sign followed by one.
ScannedNumeric ==
    /\ result.tag \in {"Ok", "Err"}
    /\ \/ is_numeric(FirstChar)
       \/ /\ FirstChar \in {"+", "-"}
          /\ result.first < Len(input)
          /\ is_numeric(input[result.first + 1])

\* The run holds decimal digits only, besides its sign and its dots.
IsDecimalRun(run) ==
    \A i \in 1..Len(run) :
        run[i] \in DecimalDigit \cup {"."} \/ (i = 1 /\ run[i] \in {"+", "-"})

\* C8, as stated: a run of decimal digits with no sign and no '.' is returned
\* as Bits, with a sign and no '.' as Integer, with exactly one '.' as
\* Decimal, and a run with a second '.' fails with MultipleDecimalPoints.
NumericKindBySignAndPoint ==
    (ScannedNumeric /\ IsDecimalRun(NumericRun(result.first))) =>
        LET run == NumericRun(result.first)
        IN  CASE Dots(run) >= 2 ->
                   IsError /\ result.error = "MultipleDecimalPoints"
              [] Dots(run) = 1 -> IsToken /\ result.type.name = "Decimal"
              [] Dots(run) = 0 /\ HasSign(run) ->
                   IsToken /\ result.type.name = "Integer"
              [] OTHER -> IsToken /\ result.type.name = "Bits"

\* C8, amended: the kind is chosen by sign and decimal point as stated, and
\* the token is returned when the run parses as that kind: a run without '.'
\* whose digits are not decimal or whose value is outside u64 (no sign) or
\* i64 (sign) fails with BitsParsing or IntegerParsing, and a run with one '.'
\* whose digits are not decimal fails with DecimalParsing.
NumericKindWhenParsed ==
    ScannedNumeric =>
        LET run == NumericRun(result.first)
            digits == Unsigned(run)
            negative == Head(run) = "-"
        IN  CASE Dots(run) >= 2 ->
                   IsError /\ result.error = "MultipleDecimalPoints"
              [] Dots(run) = 1 ->
                   IF IsDecimalRun(run)
                   THEN /\ IsToken
                        /\ result.type.name = "Decimal"
                        /\ result.type.value.negative = negative
                        /\ result.buffer = run
                   ELSE IsError /\ result.error = "DecimalParsing"
              [] Dots(run) = 0 /\ HasSign(run) ->
                   IF /\ AllDecimal(digits)
                      /\ DigitsLeq(StripZeros(digits),
                                   IF negative THEN I64_MIN ELSE I64_MAX)
                   THEN /\ IsToken
                        /\ result.type.name = "Integer"
                        /\ result.type.value.digits = StripZeros(digits)
                   ELSE IsError /\ result.error = "IntegerParsing"
              [] OTHER ->
                   IF AllDecimal(run) /\ DigitsLeq(StripZeros(run), U64_MAX)
                   THEN /\ IsToken
                        /\ result.type.name = "Bits"
                        /\ result.type.value = StripZeros(run)
                   ELSE IsError /\ result.error = "BitsParsing"

\* C8 witness: `+9223372036854775808`, a signed run without '.' one above
\* i64::MAX, fails with IntegerParsing.
SignedRunOutOfRange ==
    /\ IsError
    /\ result.buffer = <<"+">> \o I64_MIN
    /\ result.error = "IntegerParsing"

\* The identifier run that starts at index i of the input.
RECURSIVE IdentifierRunEnd(_)
IdentifierRunEnd(i) ==
    IF /\ i < Len(input)
       /\ \/ is_alphabetic(input[i + 1])
          \/ is_numeric(input[i + 1])
          \/ input[i + 1] = "_"
    THEN IdentifierRunEnd(i + 1)
    ELSE i

IdentifierRun(i) == SubSeq(input, i, IdentifierRunEnd(i))

\* C9: a pull that dispatches on an alphabetic character returns, for the
\* whole run of alphabetic, numeric and underscore characters, the marker of
\* the keyword it spells, Boolean(true) for `true`, Boolean(false) for
\* `false`, and Identifier(run) for any other run.
WordIsKeywordOrIdentifier ==
    (result.tag \in {"Ok", "Err"} /\ is_alphabetic(FirstChar)) =>
        LET run == IdentifierRun(result.first)
        IN  /\ IsToken
            /\ CASE run = <<"t", "r", "u", "e">> ->
                      result.type.name = "Boolean" /\ result.type.value = TRUE
                 [] run = <<"f", "a", "l", "s", "e">> ->
                      result.type.name = "Boolean" /\ result.type.value = FALSE
                 [] run \in DOMAIN KEYWORDS ->
                      result.type = Marker(KEYWORDS[run])
                 [] OTHER ->
                      result.type.name = "Identifier" /\ result.type.value = run
            /\ run = <<"u", "s", "e">> => result.type.name = "Use"
            /\ run = <<"i", "n", "t", "8">> => result.type.name = "Int8"

\* C9 witness: the keyword `int8` followed by an underscore, returned as the
\* identifier `int8_`.
KeywordWithSuffixIsIdentifier ==
    /\ IsToken
    /\ result.type.name = "Identifier"
    /\ result.type.value = <<"i", "n", "t", "8", "_">>

\* C10: a pull that dispatches on '-' with '>' next returns RightwardsArrow
\* and has consumed just the two characters, and the pull after a
\* RightwardsArrow starts after the '>'.
ArrowIsOneToken ==
    [][/\ (/\ result'.tag \in {"Ok", "Err"}
           /\ input[result'.first] = "-"
           /\ result'.first < Len(input)
           /\ input[result'.first + 1] = ">")
          => /\ result'.tag = "Ok"
             /\ result'.type.name = "RightwardsArrow"
             /\ Len(input) - Len(iterator') = result'.first + 1
       /\ (IsToken /\ result.type.name = "RightwardsArrow")
          => \/ result'.tag = "None"
             \/ result'.first >= result.first + 2]_vars

\* C10 witness: the token that follows `->` at the start of the input.
TokenAfterArrow ==
    /\ pulls = 2
    /\ Len(input) >= 3
    /\ input[1] = "-"
    /\ input[2] = ">"
    /\ IsToken
    /\ result.first = 3

\* The characters a backslash may escape.
Escapable == {"\\", "'", "\""}

\* The last pull dispatched on the character c.
DispatchedOn(c) == result.tag \in {"Ok", "Err"} /\ FirstChar = c

\* The character at index i of the input, NoChar past its end.
At(i) == IF i <= Len(input) THEN input[i] ELSE NoChar

\* The last pull returned Character(value) having consumed the input up to
\* index last.
ReturnedCharacter(value, last) ==
    /\ IsToken
    /\ result.type.name = "Character"
    /\ result.type.value = value
    /\ Consumed = last

\* The last pull failed with IncompleteCharacter having consumed the input up
\* to index last, or all of it.
FailedIncompleteCharacter(last) ==
    /\ IsError
    /\ result.error = "IncompleteCharacter"
    /\ Consumed = IF last <= Len(input) THEN last ELSE Len(input)

\* The value at index v read, the closing delimiter is expected at index
\* close.
CharacterClosedAt(v, close) ==
    IF At(close) = "'" THEN ReturnedCharacter(input[v], close)
    ELSE FailedIncompleteCharacter(close)

\* C11: after the opening apostrophe at index f, an unescaped apostrophe
\* gives Character(NUL) with nothing more consumed; otherwise the character
\* read, escaped or not, is the value and the one character after it must be
\* an apostrophe, giving Character(value); any other character there, or the
\* end of the input before the closing apostrophe, gives IncompleteCharacter.
CharacterLiteralProtocol ==
    DispatchedOn("'") =>
        LET f == result.first
        IN  CASE At(f + 1) = NoChar -> FailedIncompleteCharacter(f + 1)
              [] At(f + 1) = "'" -> ReturnedCharacter("NUL", f + 1)
              [] At(f + 1) = "\\" /\ At(f + 2) = NoChar ->
                   FailedIncompleteCharacter(f + 2)
              [] At(f + 1) = "\\" /\ At(f + 2) \in Escapable ->
                   CharacterClosedAt(f + 2, f + 3)
              [] At(f + 1) = "\\" -> IsError
              [] OTHER -> CharacterClosedAt(f + 1, f + 2)

\* C11 witness: `'\''` returned as Character('\'').
EscapedApostropheCharacter ==
    /\ DispatchedOn("'")
    /\ At(result.first + 1) = "\\"
    /\ ReturnedCharacter("'", result.first + 3)

\* The string literal whose characters start at index i of the input, read
\* off the text: `closed` with the index of the closing '"' and the value,
\* `open` when the input ends first, `invalid` at a backslash that escapes
\* nothing (then at the index of the character after it).
RECURSIVE StringFrom(_, _)
StringFrom(i, value) ==
    CASE At(i) = NoChar -> [how |-> "open", at |-> i, value |-> value]
      [] At(i) = "\"" -> [how |-> "closed", at |-> i, value |-> value]
      [] At(i) = "\\" /\ At(i + 1) = NoChar ->
           [how |-> "open", at |-> i + 1, value |-> value]
      [] At(i) = "\\" /\ At(i + 1) \in Escapable ->
           StringFrom(i + 2, Append(value, input[i + 1]))
      [] At(i) = "\\" -> [how |-> "invalid", at |-> i + 1, value |-> value]
      [] OTHER -> StringFrom(i + 1, Append(value, input[i]))

\* C12: after the opening '"', the characters read are appended in order up
\* to the first unescaped '"', which ends the literal and is left out of the
\* value; an escaped '"' does not end it and is stored as '"'; the end of the
\* input before an unescaped '"' gives IncompleteString; an empty value is
\* stored as the one character NUL.
StringLiteralProtocol ==
    DispatchedOn("\"") =>
        LET text == StringFrom(result.first + 1, <<>>)
        IN  CASE text.how = "closed" ->
                   /\ IsToken
                   /\ result.type.name = "String"
                   /\ result.type.value =
                          IF text.value = <<>> THEN <<"NUL">> ELSE text.value
                   /\ Consumed = text.at
              [] text.how = "open" ->
                   /\ IsError
                   /\ result.error = "IncompleteString"
                   /\ Consumed = Len(input)
              [] OTHER -> IsError

\* C12 witness: `"a\"b"` returned as the string a"b.
EscapedQuoteInString ==
    /\ DispatchedOn("\"")
    /\ IsToken
    /\ result.type.name = "String"
    /\ result.type.value = <<"a", "\"", "b">>
    /\ Consumed = result.first + 5

\* The characters a pull dispatches on to something other than UnknownToken.
Recognized(c) ==
    \/ c \in {"'", "\"", "+", "-"}
    \/ c \in DOMAIN PUNCTUATORS
    \/ is_numeric(c)
    \/ is_alphabetic(c)

IdentifierStart(c) == is_alphabetic(c) \/ c = "_"

IdentifierContinue(c) == IdentifierStart(c) \/ c \in DecimalDigit

\* The longest match of the grammar that starts at index i of the input.
RECURSIVE GrammarRunEnd(_)
GrammarRunEnd(i) ==
    IF i < Len(input) /\ IdentifierContinue(input[i + 1])
    THEN GrammarRunEnd(i + 1)
    ELSE i

GrammarRun(i) == SubSeq(input, i, GrammarRunEnd(i))

\* C14: a pull that dispatches on the first character of a text matching
\* [a-zA-Z_][a-zA-Z_0-9]* that is not a keyword spelling returns one
\* Identifier token carrying that text, an underscore-initial text such as
\* `_foo` included.
GrammarIdentifierIsIdentifier ==
    (/\ result.tag \in {"Ok", "Err"}
     /\ IdentifierStart(FirstChar)
     /\ GrammarRun(result.first) \notin DOMAIN KEYWORDS
     /\ GrammarRunEnd(result.first) = IdentifierRunEnd(result.first)) =>
        /\ IsToken
        /\ result.type.name = "Identifier"
        /\ result.type.value = GrammarRun(result.first)

\* The lexemes of the language, read off the input text.  A lexeme is its last
\* index and the token it spells; `last` is 0 where no lexeme starts.
Lexeme(last, type) == [last |-> last, type |-> type]

NoLexeme == Lexeme(0, Marker("None"))

\* A numeric literal (token.rs lines 5-7): an optional sign, decimal digits,
\* and at most one '.' with decimal digits on both sides; without a '.' its
\* value is within u64 (no sign) or i64 (sign).
RECURSIVE DecimalRunEnd(_)
DecimalRunEnd(i) ==
    IF i < Len(input) /\ input[i + 1] \in DecimalDigit \cup {"."}
    THEN DecimalRunEnd(i + 1)
    ELSE i

NumericLexemeOf(last, run, body) ==
    CASE body = <<>> \/ Dots(run) >= 2 -> NoLexeme
      [] Head(body) = "." \/ body[Len(body)] = "." -> NoLexeme
      [] Dots(run) = 1 -> Lexeme(last, TokenType("Decimal", run))
      [] HasSign(run) ->
           IF DigitsLeq(StripZeros(body),
                        IF Head(run) = "-" THEN I64_MIN ELSE I64_MAX)
           THEN Lexeme(last, TokenType("Integer", run))
           ELSE NoLexeme
      [] OTHER ->
           IF DigitsLeq(StripZeros(body), U64_MAX)
           THEN Lexeme(last, TokenType("Bits", run))
           ELSE NoLexeme

NumericLexemeRun(last, run) == NumericLexemeOf(last, run, Unsigned(run))

NumericLexeme(i) ==
    NumericLexemeRun(DecimalRunEnd(i), SubSeq(input, i, DecimalRunEnd(i)))

CharacterLexeme(i) ==
    CASE At(i + 1) = "'" -> Lexeme(i + 1, TokenType("Character", "NUL"))
      [] At(i + 1) = "\\" /\ At(i + 2) \in Escapable /\ At(i + 3) = "'" ->
           Lexeme(i + 3, TokenType("Character", input[i + 2]))
      [] At(i + 1) \notin {NoChar, "\\"} /\ At(i + 2) = "'" ->
           Lexeme(i + 2, TokenType("Character", input[i + 1]))
      [] OTHER -> NoLexeme

StringLexemeOf(text) ==
    IF text.how = "closed"
    THEN Lexeme(text.at,
                TokenType("String",
                          IF text.value = <<>> THEN <<"NUL">> ELSE text.value))
    ELSE NoLexeme

StringLexeme(i) == StringLexemeOf(StringFrom(i + 1, <<>>))

WordLexemeOf(last, run) ==
    CASE run = <<"t", "r", "u", "e">> -> Lexeme(last, TokenType("Boolean", TRUE))
      [] run = <<"f", "a", "l", "s", "e">> ->
           Lexeme(last, TokenType("Boolean", FALSE))
      [] run \in DOMAIN KEYWORDS -> Lexeme(last, Marker(KEYWORDS[run]))
      [] OTHER -> Lexeme(last, TokenType("Identifier", run))

WordLexeme(i) == WordLexemeOf(GrammarRunEnd(i), GrammarRun(i))

\* The lexeme that starts at index i of the input.
LexemeAt(i) ==
    CASE At(i) = "'" -> CharacterLexeme(i)
      [] At(i) = "\"" -> StringLexeme(i)
      [] At(i) = "-" /\ At(i + 1) = ">" ->
           Lexeme(i + 1, Marker("RightwardsArrow"))
      [] At(i) \in {"+", "-"} /\ At(i + 1) \in DecimalDigit -> NumericLexeme(i)
      [] At(i) = "+" -> Lexeme(i, Marker("PlusSign"))
      [] At(i) = "-" -> Lexeme(i, Marker("MinuxSign"))
      [] At(i) \in DOMAIN PUNCTUATORS -> Lexeme(i, Marker(PUNCTUATORS[At(i)]))
      [] At(i) \in DecimalDigit -> NumericLexeme(i)
      [] IdentifierStart(At(i)) -> WordLexeme(i)
      [] OTHER -> NoLexeme

\* The input from index i on as lexemes, each followed by whitespace or by
\* the end of the input: `ok` is whether it is that, `lexemes` the lexemes
\* with the index each one starts at.
RECURSIVE LexemesFrom(_, _)
LexemesAfter(start, lexeme, found) ==
    IF lexeme.last = 0 \/ At(lexeme.last + 1) \notin Whitespace \cup {NoChar}
    THEN [ok |-> FALSE, lexemes |-> found]
    ELSE LexemesFrom(lexeme.last + 1,
                     Append(found, [start |-> start, type |-> lexeme.type]))

LexemesSkipped(start, found) ==
    IF start > Len(input) THEN [ok |-> TRUE, lexemes |-> found]
    ELSE LexemesAfter(start, LexemeAt(start), found)

LexemesFrom(i, found) == LexemesSkipped(FirstNonWhitespaceFrom(i), found)

\* The last pull returned the token of the lexeme `word`.
ReturnedLexeme(word) ==
    /\ IsToken
    /\ result.first = word.start
    /\ result.type.name = word.type.name
    /\ IF word.type.name \in NumericNames
       THEN result.buffer = word.type.value
       ELSE result.type.value = word.type.value

PullsOfLexemes(words) ==
    (words.ok /\ pulls >= 1) =>
        IF pulls <= Len(words.lexemes)
        THEN ReturnedLexeme(words.lexemes[pulls])
        ELSE IsEnd

\* C15: on an input made of valid lexemes with whitespace after each but
\* possibly the last, the k-th pull returns the token of the k-th lexeme,
\* with the kind the lexeme spells, whatever whitespace is between them, and
\* the pulls after the last lexeme return the end of the sequence.
SeparatedLexemesInOrder == PullsOfLexemes(LexemesFrom(1, <<>>))

\* The markers of the keyword table by their sections in enum TokenType
\* (token.rs lines 123-171).
DeterminerWords == {"Module", "Trait", "Type", "Extend", "Function", "Value"}

ActionalWords == {"Use", "Return"}

ValuableWords == {"True", "False"}

PrimitiveTypes ==
    {"Bit", "Bit8", "Bit16", "Bit32", "Bit64",
     "Int", "Int8", "Int16", "Int32", "Int64",
     "Float", "Float8", "Float16", "Float32", "Float64",
     "Bool", "Char", "Char8", "Char16", "Char32"}

\* The number of spellings the table maps to one of the markers.
Spelled(markers) ==
    Cardinality({w \in DOMAIN KEYWORDS : KEYWORDS[w] \in markers})

\* The last pull looked its word up in the table as the table is written.
LookedUpInTable ==
    (IsToken /\ is_alphabetic(FirstChar)) =>
        IF result.buffer \in DOMAIN KEYWORDS
        THEN result.type.name =
                 CASE KEYWORDS[result.buffer] \in ValuableWords -> "Boolean"
                   [] OTHER -> KEYWORDS[result.buffer]
        ELSE result.type.name = "Identifier"

\* The table as the claim counts it, and as it is written.
TableOf29 ==
    /\ Cardinality(DOMAIN KEYWORDS) = 29
    /\ Spelled(DeterminerWords \cup ActionalWords) = 8
    /\ Spelled(ValuableWords) = 2
    /\ Spelled(PrimitiveTypes) = 19

TableOf30 ==
    /\ Cardinality(DOMAIN KEYWORDS) = 30
    /\ Spelled(DeterminerWords \cup ActionalWords) = 8
    /\ Spelled(ValuableWords) = 2
    /\ Spelled(PrimitiveTypes) = 20
    /\ \A v, w \in DOMAIN KEYWORDS : KEYWORDS[v] = KEYWORDS[w] => v = w

\* C16, as stated: the keyword table has exactly 29 entries, 8 determiner,
\* action and value words, 2 boolean words and 19 primitive-type words, and
\* no lexer operation changes it.
KeywordTableOf29 == TableOf29 /\ LookedUpInTable

\* C16, amended: the keyword table has exactly 30 entries, 8 determiner and
\* action words, 2 boolean words and 20 primitive-type words, each spelling
\* with a marker of its own, and every pull, however many came before it,
\* looks its word up in that same table.
KeywordTableOf30 == TableOf30 /\ LookedUpInTable

\* C16 witness: the second pull on `use int8` (any whitespace between) found
\* the primitive-type word `int8` in the table.
TypeWordAfterKeyword ==
    /\ pulls = 2
    /\ IsToken
    /\ result.first >= 5
    /\ SubSeq(input, 1, 3) = <<"u", "s", "e">>
    /\ result.buffer = <<"i", "n", "t", "8">>
    /\ result.type = Marker("Int8")

\* The tracked position is the position of the next character to consume.
PositionTracked ==
    /\ position = PositionOf(Consumed + 1)
    /\ position.row >= 1
    /\ position.column >= 1

\* What consuming one character from `from` has made of the position.
Advanced(from, step) ==
    CASE step.current = NoChar -> step.lexer = from
      [] step.current = "\n" ->
           step.lexer.position = [row |-> from.position.row + 1, column |-> 1]
      [] OTHER ->
           step.lexer.position = [row |-> from.position.row,
                                  column |-> from.position.column + 1]

AdvancesFrom(from) == Advanced(from, increment(from))

\* A pull that returned a sign marker after its peek left the position right
\* after the sign.
PeekKeepsPosition ==
    (IsToken /\ result.type.name \in {"PlusSign", "MinuxSign"}) =>
        position = PositionOf(result.first + 1)

\* C17: after any sequence of pulls the row is 1 plus the number of line
\* breaks consumed and the column is 1 plus the number of characters consumed
\* since the last consumed line break (or since the start); consuming a line
\* break gives (row + 1, 1), consuming any other character gives
\* (row, column + 1); the row never decreases, row and column stay at least
\* 1, and a peek or a pull at the end of the input leaves the position as it
\* was.
PositionTrackerInvariant ==
    /\ [](/\ PositionTracked
          /\ AdvancesFrom([iterator |-> iterator, position |-> position])
          /\ PeekKeepsPosition)
    /\ [][/\ position'.row >= position.row
          /\ iterator = <<>> => position' = position]_vars

\* C17 witness: a pull that consumed a line break and two characters after it
\* left the position on row 2, column 3, and the pull after it, at the end of
\* the input, found it there.
PositionAfterLineBreak ==
    /\ pulls >= 2
    /\ IsEnd
    /\ iterator = <<>>
    /\ position = [row |-> 2, column |-> 3]
    /\ Len(input) >= 3
    /\ input[Len(input) - 2] = "\n"

\* The k-th character ahead in the iterator of L, if there is one.
Ahead(L, k) == IF k <= Len(L.iterator) THEN L.iterator[k] ELSE NoChar

\* The escape-aware read `read` from L returned `current`, escaped or not,
\* having consumed `count` characters.
ReadAs(L, read, is_escaped, current, count) ==
    /\ read.error = ""
    /\ read.is_escaped = is_escaped
    /\ read.current = current
    /\ read.lexer.iterator = SubSeq(L.iterator, count + 1, Len(L.iterator))

EscapeAware(L, read) ==
    CASE Ahead(L, 1) = NoChar -> read.error = "End"
      [] Ahead(L, 1) # "\\" -> ReadAs(L, read, FALSE, Ahead(L, 1), 1)
      [] Ahead(L, 2) = NoChar -> read.error = "End"
      [] Ahead(L, 2) \in Escapable -> ReadAs(L, read, TRUE, Ahead(L, 2), 2)
      [] OTHER -> read.error = "InvalidEscapeSequence"

EscapeAwareFrom(L) == EscapeAware(L, next_character(L))

\* The literal the last pull dispatched on has a backslash that escapes
\* nothing, before its end.
InvalidEscapeInLiteral ==
    \/ /\ DispatchedOn("'")
       /\ At(result.first + 1) = "\\"
       /\ At(result.first + 2) \notin Escapable \cup {NoChar}
    \/ /\ DispatchedOn("\"")
       /\ StringFrom(result.first + 1, <<>>).how = "invalid"

\* C18: the escape-aware read returns a character other than '\' unescaped
\* after consuming one character, returns the second character of '\\', '\''
\* and '\"' escaped after consuming two, and fails with InvalidEscapeSequence
\* on '\' before any other character; the character-literal or string-literal
\* pull returns that error as it is, not as IncompleteCharacter or
\* IncompleteString.
EscapeAwareRead ==
    /\ EscapeAwareFrom([iterator |-> iterator, position |-> position])
    /\ InvalidEscapeInLiteral =>
           /\ IsError
           /\ result.error = "InvalidEscapeSequence"
           /\ result.raw = "InvalidEscapeSequence"

\* C18 witness: the pull on `"a\n"` failed with InvalidEscapeSequence at the
\* `n`, with the closing quote left unread.
InvalidEscapeInString ==
    /\ DispatchedOn("\"")
    /\ At(result.first + 2) = "\\"
    /\ At(result.first + 3) = "n"
    /\ IsError
    /\ result.error = "InvalidEscapeSequence"
    /\ Consumed = result.first + 3
    /\ Consumed < Len(input)

\* The last pull dispatched on a sign that its arm returns as a marker: '+'
\* before no numeric character, '-' before neither '>' nor a numeric
\* character.
SignAlone ==
    \/ DispatchedOn("+") /\ ~is_numeric(At(result.first + 1))
    \/ /\ DispatchedOn("-")
       /\ At(result.first + 1) # ">"
       /\ ~is_numeric(At(result.first + 1))

\* The index the pull after a token that ended at index `last` dispatches on.
NextStartAfter(last) == FirstNonWhitespaceFrom(last + 1)

\* C19: a pull that dispatches on '+' with the next character absent or not
\* a digit, or on '-' with the next character absent or neither '>' nor a
\* digit, returns the sign's marker having consumed the sign only and with
\* the position right after the sign, and the next pull starts with the
\* character that was peeked at.
SignPeekIsNonDestructive ==
    /\ [](SignAlone =>
            /\ IsToken
            /\ result.type =
                   Marker(IF FirstChar = "+" THEN "PlusSign" ELSE "MinuxSign")
            /\ Consumed = result.first
            /\ position = PositionOf(result.first + 1))
    /\ [][SignAlone =>
            IF NextStartAfter(result.first) > Len(input)
            THEN result'.tag = "None"
            ELSE result'.first = NextStartAfter(result.first)]_vars

\* C19 witness: on `+a` the first pull returned the plus sign and the second
\* pull dispatched on the `a` the first had peeked at.
PeekedCharacterStartsNextPull ==
    /\ pulls = 2
    /\ Len(input) >= 2
    /\ input[1] = "+"
    /\ input[2] = "a"
    /\ IsToken
    /\ result.first = 2
    /\ result.type.name = "Identifier"

\* The markers Lexer::next calls next_numeric with (lines 259, 277, 307).
EntryMarkers == {"BitsLiteral", "IntegerLiteral"}

\* The errors of next_numeric: one raised in the loop, three by the arms of
\* the final match.
NumericErrors ==
    {"MultipleDecimalPoints", "DecimalParsing", "BitsParsing",
     "IntegerParsing"}

\* What a numeric scan entered with the marker of an unsigned or of a signed
\* start can return.
NumericOutcome(names, errors) ==
    \/ IsToken /\ result.type.name \in names
    \/ IsError /\ result.error \in errors

\* next_numeric entered from L with either marker does not end in the
\* panic arm.
NoPanicFrom(L) ==
    L.iterator # <<>> =>
        \A type \in EntryMarkers :
            next_numeric([iterator |-> Tail(L.iterator),
                          position |-> L.position],
                         Head(L.iterator), type).error # "unreachable"

\* C20: the panic arm of the final match of next_numeric is never executed:
\* the scan is entered with BitsLiteral (unsigned start) or IntegerLiteral
\* (signed start) and the marker only ever changes to DecimalLiteral, so
\* every numeric scan ends in the Decimal, Bits or Integer arm, or with
\* MultipleDecimalPoints.
PanicArmIsUnreachable ==
    /\ result.error # "unreachable"
    /\ NoPanicFrom([iterator |-> iterator, position |-> position])
    /\ ScannedNumeric =>
           IF is_numeric(FirstChar)
           THEN NumericOutcome({"Bits", "Decimal"},
                               NumericErrors \ {"IntegerParsing"})
           ELSE NumericOutcome({"Integer", "Decimal"},
                               NumericErrors \ {"BitsParsing"})

\* C20 witness: a scan entered with the marker of a signed start met a '.'
\* and ended in the Decimal arm of the final match.
SignedDecimalReturned ==
    /\ ScannedNumeric
    /\ FirstChar = "-"
    /\ IsToken
    /\ result.type.name = "Decimal"
    /\ Dots(result.buffer) = 1

====
